---- MODULE Spec2Model ----
(***************************************************************************)
(* The voice session core of src/App.tsx as a state machine: the React     *)
(* state and refs of the App component, the connect() coroutine, the       *)
(* transport callbacks (onopen, onmessage, onerror, onclose), the capture  *)
(* processor's onaudioprocess, the playback sources' onended and the       *)
(* button.  Every callback runs to completion (one action); an await is a  *)
(* boundary between two actions.                                           *)
(***************************************************************************)
EXTENDS Integers, Sequences, FiniteSets, TLC

\* Bounds of Spec, the whole component.
MaxCalls == 2        \* connect() invocations in one behaviour
MaxMessages == 1     \* transport messages delivered in one behaviour
MaxToolCalls == 1    \* function calls carried by one message
MaxDuration == 1     \* longest decoded frame, in clock units
MaxTime == 1         \* last value of the output clock

\* Bound of SpecConnect, the connection lifecycle alone.
ConnectCalls == 4

\* Bound of SpecTools, the component's first session receiving function
\* calls: how many are delivered in one behaviour, in one message or several.
ToolTotal == 2

\* Bound of SpecCapture, the connection lifecycle with the capture callback.
CaptureCalls == 3

\* Bounds of SpecPlay, the component's first session carrying audio and
\* interruptions; its frames last one or two clock units.
PlayMessages == 3
PlayTime == 1
PlayFrames == {1, 2}

VARIABLES
  status,              \* useState<ConnectionStatus>
  isSpeaking,          \* useState(false)
  isListening,         \* useState(false)
  errorMsg,            \* useState<string | null>: <<>> is null, <<m>> the string m
  audioContextInRef,   \* 0 is null, a > 0 the context created by connect() number a
  audioContextOutRef,
  gainNodeOutRef,
  nextStartTimeRef,
  sourcesRef,          \* set of indices into nodes
  sessionRef,          \* 0 is null, a > 0 the session of connect() number a
  scriptProcessorRef,  \* 0 is null, a > 0 the processor created by onopen of a
  streamRef,           \* 0 is null, a > 0 the stream acquired by connect() number a
  calls,               \* one record per connect() invocation
  handlers,            \* one record per onmessage invocation
  nodes,               \* one record per AudioBufferSourceNode created
  currentTime,         \* audioContextOutRef.current.currentTime
  sent,                \* the arguments of every sendToolResponse call, in order
  requests,            \* the arguments of every collaborator call, in order
  realtime,            \* the last sendRealtimeInput call: <<>> is none yet
  cleanups,            \* history: how many cleanup() calls in a row end the
                       \* run so far (2 stands for two or more)
  cutAt                \* history: how many messages had arrived when playback
                       \* was last torn down or interrupted

vars == <<status, isSpeaking, isListening, errorMsg, audioContextInRef,
          audioContextOutRef, gainNodeOutRef, nextStartTimeRef, sourcesRef,
          sessionRef, scriptProcessorRef, streamRef, calls, handlers, nodes,
          currentTime, sent, requests, realtime, cleanups, cutAt>>

\* The refs and the React state: what the component itself holds.
appVars == <<status, isSpeaking, isListening, errorMsg, audioContextInRef,
             audioContextOutRef, gainNodeOutRef, nextStartTimeRef, sourcesRef,
             sessionRef, scriptProcessorRef, streamRef>>

ConnectionStatus == {"disconnected", "connecting", "connected", "error"}

Init ==
  /\ status = "disconnected"
  /\ isSpeaking = FALSE
  /\ isListening = FALSE
  /\ errorMsg = <<>>
  /\ audioContextInRef = 0
  /\ audioContextOutRef = 0
  /\ gainNodeOutRef = 0
  /\ nextStartTimeRef = 0
  /\ sourcesRef = {}
  /\ sessionRef = 0
  /\ scriptProcessorRef = 0
  /\ streamRef = 0
  /\ calls = <<>>
  /\ handlers = <<>>
  /\ nodes = <<>>
  /\ currentTime = 0
  /\ sent = <<>>
  /\ requests = <<>>
  /\ realtime = <<>>
  /\ cleanups = 0
  /\ cutAt = 0

\* The history variables after a callback that called cleanup(), and after
\* one that did not.
AfterCleanup ==
  /\ cleanups' = IF cleanups = 0 THEN 1 ELSE 2
  /\ cutAt' = Len(handlers)

NoCleanup(cut) == cleanups' = 0 /\ cutAt' = cut

----------------------------------------------------------------------------
\* cleanup

\* session.close() on the transport: an open connection starts closing and its
\* close event is still to come; a closing or closed one is left as it is.
SessionClose(conn) == IF conn = "open" THEN "closing" ELSE conn

\* source.stop() on every member of sourcesRef (lines 118 and 206): the node
\* stops and its ended event is still to come.  Nothing reads the schedule of
\* a stopped node; its times and its message (by) are dropped.
StopSources(nn, set) ==
  [i \in DOMAIN nn |->
     IF i \in set /\ nn[i].state = "playing"
       THEN [nn[i] EXCEPT !.state = "stopped", !.start = 0, !.dur = 0,
                          !.by = 0]
       ELSE nn[i]]

\* What cleanup does to the transport, processor and stream the refs name.
CleanupCalls(cc) ==
  [a \in DOMAIN cc |->
     [cc[a] EXCEPT
        !.conn = IF a = sessionRef THEN SessionClose(@) ELSE @,
        !.proc = IF a = scriptProcessorRef THEN "disconnected" ELSE @,
        !.stream = IF a = streamRef THEN "stopped" ELSE @]]

\* A cleanup that leaves the capture stream's tracks running (lines 114-117
\* skipped).
cleanupKeepsStream(cc) ==
  /\ calls' = [a \in DOMAIN cc |->
                 [cc[a] EXCEPT
                    !.conn = IF a = sessionRef THEN SessionClose(@) ELSE @,
                    !.proc = IF a = scriptProcessorRef THEN "disconnected" ELSE @]]
  /\ sessionRef' = 0
  /\ scriptProcessorRef' = 0
  /\ streamRef' = 0
  /\ nodes' = StopSources(nodes, sourcesRef)
  /\ sourcesRef' = {}
  /\ nextStartTimeRef' = 0
  /\ status' = "disconnected"
  /\ isListening' = FALSE
  /\ isSpeaking' = FALSE

\* A cleanup that leaves the status as it finds it (line 121 skipped).
cleanupKeepsStatus(cc) ==
  /\ calls' = CleanupCalls(cc)
  /\ sessionRef' = 0
  /\ scriptProcessorRef' = 0
  /\ streamRef' = 0
  /\ nodes' = StopSources(nodes, sourcesRef)
  /\ sourcesRef' = {}
  /\ nextStartTimeRef' = 0
  /\ status' = status
  /\ isListening' = FALSE
  /\ isSpeaking' = FALSE

\* cleanup(), lines 105-124, applied to the calls as the caller left them.
cleanup(cc) ==
  /\ calls' = CleanupCalls(cc)
  /\ sessionRef' = 0
  /\ scriptProcessorRef' = 0
  /\ streamRef' = 0
  /\ nodes' = StopSources(nodes, sourcesRef)
  /\ sourcesRef' = {}
  /\ nextStartTimeRef' = 0
  /\ status' = "disconnected"
  /\ isListening' = FALSE
  /\ isSpeaking' = FALSE

----------------------------------------------------------------------------
\* connect

NewCall == [pc |-> "resumeIn", stream |-> "none", conn |-> "none",
            proc |-> "none"]

\* The button of lines 318-320: which handler a click runs, if any.
ButtonAction(st) ==
  IF st = "connecting" THEN "disabled"
  ELSE IF st = "connected" THEN "cleanup" ELSE "connect"

\* A click that runs connect(): lines 126-140, up to the first await.
ClickConnect(maxCalls) ==
  /\ ButtonAction(status) = "connect"
  /\ Len(calls) < maxCalls
  /\ LET a == Len(calls) + 1 IN
       /\ status' = "connecting"
       /\ errorMsg' = <<>>
       /\ audioContextInRef' = IF audioContextInRef = 0 THEN a ELSE audioContextInRef
       /\ audioContextOutRef' = IF audioContextOutRef = 0 THEN a ELSE audioContextOutRef
       /\ calls' = Append(calls, NewCall)
  /\ NoCleanup(cutAt)
  /\ UNCHANGED <<isSpeaking, isListening, gainNodeOutRef, nextStartTimeRef,
                 sourcesRef, sessionRef, scriptProcessorRef, streamRef,
                 handlers, nodes, currentTime, sent, requests, realtime>>

\* audioContextInRef.current.resume() resolves: line 140 to the await of 141.
ResumeIn(a) ==
  /\ calls[a].pc = "resumeIn"
  /\ calls' = [calls EXCEPT ![a].pc = "resumeOut"]
  /\ NoCleanup(cutAt)
  /\ UNCHANGED <<appVars, handlers, nodes, currentTime, sent, requests, realtime>>

\* audioContextOutRef.current.resume() resolves: lines 141-148.
ResumeOut(a) ==
  /\ calls[a].pc = "resumeOut"
  /\ gainNodeOutRef' = IF gainNodeOutRef = 0 THEN a ELSE gainNodeOutRef
  /\ calls' = [calls EXCEPT ![a].pc = "getUserMedia"]
  /\ NoCleanup(cutAt)
  /\ UNCHANGED <<status, isSpeaking, isListening, errorMsg, audioContextInRef,
                 audioContextOutRef, nextStartTimeRef, sourcesRef, sessionRef,
                 scriptProcessorRef, streamRef, handlers, nodes, currentTime,
                 sent, requests, realtime>>

\* getUserMedia resolves: lines 148-278, the stream is kept and the transport
\* is asked to connect; the coroutine waits for the session.
GetUserMedia(a) ==
  /\ calls[a].pc = "getUserMedia"
  /\ streamRef' = a
  /\ calls' = [calls EXCEPT ![a].pc = "sessionPromise", ![a].stream = "live",
                            ![a].conn = "opening"]
  /\ NoCleanup(cutAt)
  /\ UNCHANGED <<status, isSpeaking, isListening, errorMsg, audioContextInRef,
                 audioContextOutRef, gainNodeOutRef, nextStartTimeRef,
                 sourcesRef, sessionRef, scriptProcessorRef, handlers, nodes,
                 currentTime, sent, requests, realtime>>

\* err.message || "Failed to establish voice session.", line 280.
CatchMessage(m) == IF m = "" THEN "Failed to establish voice session." ELSE m

ErrorMessages == {"", "Permission denied"}

\* An awaited step of connect() rejects: the catch of lines 279-283.  While the
\* transport is opening the rejection is the transport's, which then is gone.
ConnectFails(a, m) ==
  /\ \/ calls[a].pc \in {"resumeIn", "resumeOut", "getUserMedia"}
     \/ calls[a].pc = "sessionPromise" /\ calls[a].conn = "opening"
  /\ errorMsg' = <<CatchMessage(m)>>
  /\ cleanup([calls EXCEPT ![a].pc = "failed",
                           ![a].conn = IF @ = "opening" THEN "closed" ELSE @])
  /\ AfterCleanup
  /\ UNCHANGED <<audioContextInRef, audioContextOutRef, gainNodeOutRef,
                 handlers, currentTime, sent, requests, realtime>>

\* A click that runs cleanup(): the button while connected.
ClickDisconnect ==
  /\ ButtonAction(status) = "cleanup"
  /\ cleanup(calls)
  /\ AfterCleanup
  /\ UNCHANGED <<errorMsg, audioContextInRef, audioContextOutRef,
                 gainNodeOutRef, handlers, currentTime, sent, requests, realtime>>

----------------------------------------------------------------------------
\* transport callbacks

\* The transport opens: onopen, lines 170-184, and with it the session promise
\* resolves, whose continuation (line 278) runs before any other callback.
TransportOpen(a) ==
  /\ calls[a].conn = "opening"
  /\ status' = "connected"
  /\ isListening' = TRUE
  /\ scriptProcessorRef' = a
  /\ sessionRef' = a
  /\ calls' = [calls EXCEPT ![a].conn = "open", ![a].proc = "connected",
                            ![a].pc = "done"]
  /\ NoCleanup(cutAt)
  /\ UNCHANGED <<isSpeaking, errorMsg, audioContextInRef, audioContextOutRef,
                 gainNodeOutRef, nextStartTimeRef, sourcesRef, streamRef,
                 handlers, nodes, currentTime, sent, requests, realtime>>

\* onerror, lines 263-268: the transport fails; its close event follows.  The
\* setStatus('error') of line 266 is followed in the same callback by the
\* setStatus('disconnected') of cleanup, line 121.
TransportError(a) ==
  /\ calls[a].conn \in {"opening", "open"}
  /\ errorMsg' = <<"Call ended. Possible connection issue.">>
  /\ cleanup([calls EXCEPT ![a].conn = "closing"])
  /\ AfterCleanup
  /\ UNCHANGED <<audioContextInRef, audioContextOutRef, gainNodeOutRef,
                 handlers, currentTime, sent, requests, realtime>>

\* onclose, line 269: the close event of a transport, closed by the peer or
\* after session.close() or an error.
TransportClose(a) ==
  /\ calls[a].conn \in {"opening", "open", "closing"}
  /\ cleanup([calls EXCEPT ![a].conn = "closed"])
  /\ AfterCleanup
  /\ UNCHANGED <<errorMsg, audioContextInRef, audioContextOutRef,
                 gainNodeOutRef, handlers, currentTime, sent, requests, realtime>>

\* onaudioprocess of the processor installed by onopen of session a, lines
\* 175-181: the captured block goes to the session of its own connect().
\* cleanup's disconnect() (line 111) cuts the processor's output and leaves
\* its input connected; whether the event is still dispatched then depends
\* on the browser, so both are possible.
AudioProcess(a) ==
  /\ calls[a].proc \in {"connected", "disconnected"}
  /\ realtime' = <<[to |-> a, conn |-> calls[a].conn, proc |-> calls[a].proc,
                    stream |-> calls[a].stream, held |-> sessionRef = a]>>
  /\ UNCHANGED <<appVars, calls, handlers, nodes, currentTime, sent, requests,
                 cleanups, cutAt>>

----------------------------------------------------------------------------
\* onmessage: playback

\* A schedule that starts every frame at once, whatever is queued.
ScheduleAtNow(next, now) == now

\* Math.max(nextStartTimeRef.current, currentTime), line 194.
ScheduleStart(next, now) == IF next > now THEN next ELSE now

\* nextStartTimeRef.current = 0, line 208.
InterruptedCursor == 0

\* The playback state a message handler works on.
Playback == [nodes |-> nodes, sources |-> sourcesRef,
             next |-> nextStartTimeRef, speaking |-> isSpeaking]

\* Lines 190-202: a source for the decoded buffer of duration d, created by
\* handler h, started at the cursor and added to the active set.
Enqueue(pb, d, h) ==
  LET start == ScheduleStart(pb.next, currentTime) IN
    [pb EXCEPT
       !.nodes = Append(@, [start |-> start, dur |-> d, state |-> "playing",
                            by |-> h]),
       !.sources = @ \cup {Len(pb.nodes) + 1},
       !.next = start + d]

\* An interruption that stops the sources and keeps the cursor (line 208
\* skipped).
InterruptedKeepsCursor(pb) ==
  [pb EXCEPT !.nodes = StopSources(@, pb.sources), !.sources = {},
             !.speaking = FALSE]

\* Lines 205-210: the message says the model was interrupted.
Interrupted(pb) ==
  [pb EXCEPT !.nodes = StopSources(@, pb.sources), !.sources = {},
             !.next = InterruptedCursor, !.speaking = FALSE]

AfterInterruptedFlag(pb, flag) == IF flag THEN Interrupted(pb) ELSE pb

----------------------------------------------------------------------------
\* onmessage: tool calls

\* Which collaborator the branch of lines 216-246 for a function name awaits.
Collaborator(name) ==
  CASE name = "query_knowledge_base" -> "lookup"
    [] name = "book_meeting" -> "logging"
    [] name = "create_support_ticket" -> "logging"
    [] name = "log_sales_interest" -> "logging"
    [] OTHER -> "none"

\* The messageType and actionDone a branch of lines 219-246 passes to
\* submitSupportAction.
MessageType(name) ==
  CASE name = "book_meeting" -> "Booking"
    [] name = "create_support_ticket" -> "Support Ticket"
    [] name = "log_sales_interest" -> "Sales Query"
    [] OTHER -> ""

\* An action table that labels tickets as sales queries.
ActionDoneMixedUp(name) ==
  CASE name = "book_meeting" -> "Appointment Scheduled"
    [] name = "create_support_ticket" -> "Sales info Delivered"
    [] name = "log_sales_interest" -> "Sales info Delivered"
    [] OTHER -> ""

ActionDone(name) ==
  CASE name = "book_meeting" -> "Appointment Scheduled"
    [] name = "create_support_ticket" -> "Support Ticket Logged"
    [] name = "log_sales_interest" -> "Sales info Delivered"
    [] OTHER -> ""

\* The collaborator call of function call i of handler h: queryKnowledgeBase
\* (line 217) or submitSupportAction (lines 220, 229, 238).
Request(h, i, name) ==
  [call |-> <<h, i>>, to |-> Collaborator(name),
   messageType |-> MessageType(name), actionDone |-> ActionDone(name)]

\* What a failed collaborator call throws: riyadahApi.ts lines 24 and 73.
ErrorMessage(collaborator) ==
  IF collaborator = "lookup" THEN "Knowledge base error"
  ELSE "Failed to log action to system."

\* A result that carries the thrown message without the "Error: " in front.
ResponseResultBare(name, ok) ==
  IF Collaborator(name) = "none" \/ (ok /\ Collaborator(name) = "logging")
    THEN <<"Action successful.">>
  ELSE IF ok THEN <<"JSON.stringify(res)">>
  ELSE <<ErrorMessage(Collaborator(name))>>

\* responseResult after the try of lines 215-249, as the pieces the text is
\* made of: the initial text (line 214), JSON.stringify(res) (line 218) or
\* `Error: ${e.message}` (line 248).
ResponseResult(name, ok) ==
  IF Collaborator(name) = "none" \/ (ok /\ Collaborator(name) = "logging")
    THEN <<"Action successful.">>
  ELSE IF ok THEN <<"JSON.stringify(res)">>
  ELSE <<"Error: ", ErrorMessage(Collaborator(name))>>

\* The functionResponses entry of lines 253-257 for function call fc.
FunctionResponse(fc, result) ==
  [id |-> fc.id, name |-> fc.name, result |-> result]

\* sessionPromise.then(s => s.sendToolResponse(...)), lines 251-259, in
\* handler number h of session s: the response goes to the handler's own
\* session, whatever state its transport is in.
SendToolResponse(out, cc, s, h, i, fc, result) ==
  Append(out, [to |-> s, conn |-> cc[s].conn, call |-> <<h, i>>,
               response |-> FunctionResponse(fc, result)])

\* A handler that returned or threw: its frame is gone, what is kept is which
\* session it belonged to, how it ended and the function calls it was given.
Ended(hd, how) ==
  [hd EXCEPT !.pc = how, !.audio = 0, !.interrupted = FALSE, !.i = 0]

\* The loop of lines 213-260 from function call number i on, until a
\* collaborator is awaited or the calls are exhausted.
RECURSIVE RunToolCalls(_, _, _, _, _, _)
RunToolCalls(hd, h, i, out, reqs, cc) ==
  IF i > Len(hd.tools)
    THEN [handler |-> Ended(hd, "done"), sent |-> out, requests |-> reqs]
  ELSE IF Collaborator(hd.tools[i].name) # "none"
    THEN [handler |-> [hd EXCEPT !.pc = "collaborator", !.i = i], sent |-> out,
          requests |-> Append(reqs, Request(h, i, hd.tools[i].name))]
  ELSE RunToolCalls(hd, h, i + 1,
         SendToolResponse(out, cc, hd.s, h, i, hd.tools[i],
                          ResponseResult(hd.tools[i].name, TRUE)), reqs, cc)

----------------------------------------------------------------------------
\* onmessage

\* The four declared tools (line 274) and a name the handler has no branch for.
ToolNames == {"query_knowledge_base", "book_meeting", "create_support_ticket",
              "log_sales_interest", "set_reminder"}

\* The function calls a message may carry: ids are the transport's tokens.
RECURSIVE NameSeqs(_)
NameSeqs(n) ==
  IF n = 0 THEN {<<>>}
  ELSE NameSeqs(n - 1) \cup
       {Append(q, x) : q \in {r \in NameSeqs(n - 1) : Len(r) = n - 1},
                       x \in ToolNames}

ToolCalls(h, names) ==
  [i \in 1..Len(names) |-> [id |-> <<h, i>>, name |-> names[i]]]

\* audio: 0 for no inline data, d > 0 for a payload that decodes to a buffer
\* of duration d, -1 for a payload the decoder rejects.
Audio(maxDuration) == {-1} \cup (0..maxDuration)


\* The part of a handler after the audio block: lines 205-261.
Continue(hd, h, pb) ==
  LET pb2 == AfterInterruptedFlag(pb, hd.interrupted)
      run == RunToolCalls(hd, h, 1, sent, requests, calls)
      arrived == IF h > Len(handlers) THEN h ELSE Len(handlers) IN
    /\ NoCleanup(IF hd.interrupted THEN arrived ELSE cutAt)
    /\ nodes' = pb2.nodes
    /\ sourcesRef' = pb2.sources
    /\ nextStartTimeRef' = pb2.next
    /\ isSpeaking' = pb2.speaking
    /\ sent' = run.sent
    /\ requests' = run.requests
    /\ handlers' = IF h > Len(handlers) THEN Append(handlers, run.handler)
                   ELSE [handlers EXCEPT ![h] = run.handler]

\* A message arrives on the open transport of session a: line 185 to the
\* first await of the handler.
TransportMessage(a, audio, interrupted, names, maxMessages) ==
  /\ calls[a].conn = "open"
  /\ calls[a].pc = "done"
  /\ Len(handlers) < maxMessages
  /\ LET h == Len(handlers) + 1
         hd == [s |-> a, audio |-> audio, interrupted |-> interrupted,
                tools |-> ToolCalls(h, names), pc |-> "decode", i |-> 0] IN
       IF audio # 0 /\ audioContextOutRef # 0
         THEN /\ isSpeaking' = TRUE
              /\ handlers' = Append(handlers, hd)
              /\ NoCleanup(cutAt)
              /\ UNCHANGED <<nodes, sourcesRef, nextStartTimeRef, sent,
                             requests, realtime>>
         ELSE Continue(hd, h, Playback)
  /\ UNCHANGED <<status, isListening, errorMsg, audioContextInRef,
                 audioContextOutRef, gainNodeOutRef, sessionRef,
                 scriptProcessorRef, streamRef, calls, currentTime, realtime>>

\* decodeAudioData resolves: lines 189-261 up to the next await.
DecodeDone(h) ==
  /\ handlers[h].pc = "decode"
  /\ handlers[h].audio > 0
  /\ Continue(handlers[h], h, Enqueue(Playback, handlers[h].audio, h))
  /\ UNCHANGED <<status, isListening, errorMsg, audioContextInRef,
                 audioContextOutRef, gainNodeOutRef, sessionRef,
                 scriptProcessorRef, streamRef, calls, currentTime, realtime>>

\* decodeAudioData rejects: nothing in onmessage catches it, the handler ends.
DecodeFails(h) ==
  /\ handlers[h].pc = "decode"
  /\ handlers[h].audio = -1
  /\ handlers' = [handlers EXCEPT ![h] = Ended(@, "thrown")]
  /\ NoCleanup(cutAt)
  /\ UNCHANGED <<appVars, calls, nodes, currentTime, sent, requests, realtime>>

\* The awaited collaborator call of function call i settles: lines 217-260,
\* then the loop goes on.
CollaboratorSettles(h, ok) ==
  /\ handlers[h].pc = "collaborator"
  /\ LET hd == handlers[h]
         fc == hd.tools[hd.i]
         out == SendToolResponse(sent, calls, hd.s, h, hd.i, fc,
                                 ResponseResult(fc.name, ok))
         run == RunToolCalls(hd, h, hd.i + 1, out, requests, calls) IN
       /\ sent' = run.sent
       /\ requests' = run.requests
       /\ handlers' = [handlers EXCEPT ![h] = run.handler]
  /\ NoCleanup(cutAt)
  /\ UNCHANGED <<appVars, calls, nodes, currentTime, realtime>>

----------------------------------------------------------------------------
\* the output device

\* The output context's clock advances.
Tick(maxTime) ==
  /\ audioContextOutRef # 0
  /\ currentTime < maxTime
  /\ currentTime' = currentTime + 1
  /\ NoCleanup(cutAt)
  /\ UNCHANGED <<appVars, calls, handlers, nodes, sent, requests, realtime>>

\* source.onended, lines 199-202: the node played to its end or was stopped.
\* Nothing refers to the node afterwards; its times are dropped with it.
SourceEnded(n) ==
  /\ \/ nodes[n].state = "stopped"
     \/ nodes[n].state = "playing" /\ currentTime >= nodes[n].start + nodes[n].dur
  /\ nodes' = [nodes EXCEPT ![n] = [@ EXCEPT !.state = "ended", !.start = 0,
                                              !.dur = 0, !.by = 0]]
  /\ sourcesRef' = sourcesRef \ {n}
  /\ isSpeaking' = IF sourcesRef \ {n} = {} THEN FALSE ELSE isSpeaking
  /\ NoCleanup(cutAt)
  /\ UNCHANGED <<status, isListening, errorMsg, audioContextInRef,
                 audioContextOutRef, gainNodeOutRef, nextStartTimeRef,
                 sessionRef, scriptProcessorRef, streamRef, calls, handlers,
                 currentTime, sent, requests, realtime>>

----------------------------------------------------------------------------
\* The button and the connect() coroutine with its transport.
Lifecycle(maxCalls) ==
  \/ ClickConnect(maxCalls)
  \/ ClickDisconnect
  \/ \E a \in DOMAIN calls :
       \/ ResumeIn(a)
       \/ ResumeOut(a)
       \/ GetUserMedia(a)
       \/ \E m \in ErrorMessages : ConnectFails(a, m)
       \/ TransportOpen(a)
       \/ TransportError(a)
       \/ TransportClose(a)

\* Decoding and the output device.
Output(maxTime) ==
  \/ \E h \in DOMAIN handlers : DecodeDone(h)
  \/ \E n \in DOMAIN nodes : SourceEnded(n)
  \/ Tick(maxTime)

Next ==
  \/ Lifecycle(MaxCalls)
  \/ \E a \in DOMAIN calls, audio \in Audio(MaxDuration),
        interrupted \in BOOLEAN, names \in NameSeqs(MaxToolCalls) :
       TransportMessage(a, audio, interrupted, names, MaxMessages)
  \/ \E h \in DOMAIN handlers :
       \/ DecodeFails(h)
       \/ \E ok \in BOOLEAN : CollaboratorSettles(h, ok)
  \/ \E a \in DOMAIN calls : AudioProcess(a)
  \/ Output(MaxTime)

Spec == Init /\ [][Next]_vars

NextConnect == Lifecycle(ConnectCalls)

SpecConnect == Init /\ [][NextConnect]_vars

\* The first connect() of the component, its session and what follows its
\* teardown; every message carries a payload that decodes, the interrupted
\* flag, or both.
NextPlay ==
  \/ Lifecycle(1)
  \/ \E a \in DOMAIN calls, audio \in {0} \cup PlayFrames,
        interrupted \in BOOLEAN :
       /\ audio # 0 \/ interrupted
       /\ TransportMessage(a, audio, interrupted, <<>>, PlayMessages)
  \/ Output(PlayTime)

SpecPlay == Init /\ [][NextPlay]_vars

NextCapture ==
  \/ Lifecycle(CaptureCalls)
  \/ \E a \in DOMAIN calls : AudioProcess(a)

SpecCapture == Init /\ [][NextCapture]_vars

\* How many function calls the first n messages carried.
RECURSIVE CallsDelivered(_)
CallsDelivered(n) ==
  IF n = 0 THEN 0 ELSE Len(handlers[n].tools) + CallsDelivered(n - 1)

\* The function calls one message of SpecTools may carry.
ToolBatches == NameSeqs(ToolTotal) \ {<<>>}

\* The first connect() of the component, its session and what follows its
\* teardown; every message carries function calls and nothing else.
NextTools ==
  \/ Lifecycle(1)
  \/ /\ CallsDelivered(Len(handlers)) < ToolTotal
     /\ \E a \in DOMAIN calls, names \in ToolBatches :
          /\ CallsDelivered(Len(handlers)) + Len(names) <= ToolTotal
          /\ TransportMessage(a, 0, FALSE, names, ToolTotal)
  \/ \E h \in DOMAIN handlers, ok \in BOOLEAN : CollaboratorSettles(h, ok)

SpecTools == Init /\ [][NextTools]_vars

----------------------------------------------------------------------------
\* Properties

Opened == {a \in DOMAIN calls : calls[a].conn = "open"}

\* C1: at most one transport session handle is open at any time, and an open
\* handle is the one sessionRef names: none is left open and unreferenced or
\* overwritten by a later connect() without having been closed.
C1_OneLiveHandle ==
  /\ Cardinality(Opened) <= 1
  /\ \A a \in Opened : sessionRef = a

\* A callback of the transport of connect() number a, or the continuation of
\* one of its message handlers.
CallbackOf(a) ==
  \/ TransportOpen(a)
  \/ TransportError(a)
  \/ TransportClose(a)
  \/ \E h \in DOMAIN handlers :
       /\ handlers[h].s = a
       /\ \/ DecodeDone(h)
          \/ DecodeFails(h)
          \/ \E ok \in BOOLEAN : CollaboratorSettles(h, ok)

\* C2: once a later connect() has started, which takes a teardown after
\* session a began, no callback of session a changes the state of the later
\* session: status, capture stream, transport handle, processor, active
\* playback set and nextStartTime.
C2_NoStaleCallback ==
  [][\A a \in DOMAIN calls :
       (a < Len(calls) /\ CallbackOf(a)) =>
         /\ UNCHANGED <<status, streamRef, sessionRef, scriptProcessorRef,
                        sourcesRef, nextStartTimeRef>>
         /\ calls'[Len(calls)] = calls[Len(calls)]]_vars

\* C3: a frame whose message arrived before the last teardown or interruption
\* is never played afterwards: every source that is playing or in the active
\* set belongs to a message that arrived later.
C3_InFlightFrameDiscarded ==
  \A n \in DOMAIN nodes :
    (nodes[n].state = "playing" \/ n \in sourcesRef) => nodes[n].by > cutAt

\* The responses sent for function call i of handler h.
Answers(h, i) == {k \in DOMAIN sent : sent[k].call = <<h, i>>}

\* C4: when a message handler has ended, each function call of its message
\* has been answered exactly once, with the call's own id and name.
C4_EachToolCallAnsweredOnce ==
  \A h \in DOMAIN handlers :
    handlers[h].pc \in {"done", "thrown"} =>
      \A i \in DOMAIN handlers[h].tools :
        /\ Cardinality(Answers(h, i)) = 1
        /\ \A k \in Answers(h, i) :
             /\ sent[k].response.id = handlers[h].tools[i].id
             /\ sent[k].response.name = handlers[h].tools[i].name

\* connect() number a fails in this step while acquiring a device.
DeviceFailure(a) ==
  /\ calls[a].pc \in {"resumeIn", "resumeOut", "getUserMedia"}
  /\ calls'[a].pc = "failed"

\* C5: when a connect() has failed while acquiring the capture or output
\* device and the failure has been handled, that connect() asked for no
\* transport, holds no stream and has installed no processor, and what the
\* refs named is released: the stream stopped, the processor disconnected,
\* the session closed, the refs null.
C5_FailedAcquisitionLeavesNothing ==
  [][\A a \in DOMAIN calls :
       DeviceFailure(a) =>
         /\ calls'[a].conn = "none"
         /\ calls'[a].stream = "none"
         /\ calls'[a].proc = "none"
         /\ streamRef' = 0 /\ scriptProcessorRef' = 0 /\ sessionRef' = 0
         /\ streamRef # 0 => calls'[streamRef].stream = "stopped"
         /\ scriptProcessorRef # 0 =>
              calls'[scriptProcessorRef].proc = "disconnected"
         /\ sessionRef # 0 => calls'[sessionRef].conn \in {"closing", "closed"}
    ]_vars

\* C5 witness: a connect() failed in device acquisition after an earlier
\* session had acquired a stream, which is stopped.
C5_Witness ==
  \E a, b \in DOMAIN calls :
    /\ b < a
    /\ calls[a].pc = "failed" /\ calls[a].conn = "none"
    /\ calls[b].stream = "stopped"
    /\ streamRef = 0

\* C6: a transport error event, and a failure during connect(), leave the
\* status error with a non-empty error message, and the status stays error
\* until the next connect().
C6_ErrorStateEntered ==
  [][/\ (\E a \in DOMAIN calls :
           TransportError(a) \/ \E m \in ErrorMessages : ConnectFails(a, m))
        => (status' = "error" /\ errorMsg' # <<>> /\ errorMsg'[1] # "")
     /\ (status = "error" /\ status' # "error") => status' = "connecting"
    ]_vars

\* C7: a cleanup() call that directly follows another changes nothing: the
\* status is and stays disconnected, the refs and React state keep their
\* values, no source, stream, processor or transport changes (but for the
\* transport whose close event delivered the call).
C7_CleanupIdempotent ==
  [][(cleanups >= 1 /\ (ClickDisconnect \/ \E a \in DOMAIN calls : TransportClose(a)))
       => /\ status = "disconnected" /\ status' = "disconnected"
          /\ UNCHANGED <<appVars, nodes>>
          /\ \A a \in DOMAIN calls :
               /\ calls'[a].stream = calls[a].stream
               /\ calls'[a].proc = calls[a].proc
               /\ calls'[a].pc = calls[a].pc
               /\ calls'[a].conn # calls[a].conn =>
                    (calls[a].conn \in {"opening", "closing"} /\ calls'[a].conn = "closed")
    ]_vars

\* C7 witness: two cleanup() calls in a row, the first of which stopped a
\* playing source.
C7_Witness ==
  /\ cleanups = 2
  /\ \E n \in DOMAIN nodes : nodes[n].state = "stopped"

InProgress(a) ==
  \/ calls[a].pc \in {"resumeIn", "resumeOut", "getUserMedia"}
  \/ calls[a].pc = "sessionPromise" /\ calls[a].conn = "opening"

\* C8: while the status is connecting or connected the button does not run
\* connect(), and at most one connect() is in progress at any time.
C8_OneConnectInProgress ==
  /\ status \in {"connecting", "connected"} => ButtonAction(status) # "connect"
  /\ Cardinality({a \in DOMAIN calls : InProgress(a)}) <= 1

\* A handler reaches the interrupted block: of a message that carries the
\* flag alone (on arrival) or the flag and audio (when its decode is done).
InterruptedOnArrival ==
  \E a \in DOMAIN calls :
    TransportMessage(a, 0, TRUE, <<>>, Len(handlers) + 1)

InterruptedAfterDecode ==
  \E h \in DOMAIN handlers : handlers[h].interrupted /\ DecodeDone(h)

\* A frame is enqueued and its message does not interrupt it at once.
EnqueueStep == \E h \in DOMAIN handlers : ~handlers[h].interrupted /\ DecodeDone(h)

\* C9: handling an interruption stops every active source, leaves the active
\* set empty, raises nothing and leaves the status as it was; with no active
\* source no source changes.  The next frame enqueued, as every frame
\* enqueued while the active set is empty, starts at the output clock's
\* current time.
C9_Interruption ==
  /\ [][(InterruptedOnArrival \/ InterruptedAfterDecode) =>
          /\ sourcesRef' = {}
          /\ \A n \in sourcesRef : nodes'[n].state = "stopped"
          /\ \A n \in DOMAIN nodes' \ DOMAIN nodes : nodes'[n].state = "stopped"
          /\ status' = status
          /\ \A h \in DOMAIN handlers' : handlers'[h].pc # "thrown"
          /\ (sourcesRef = {} /\ InterruptedOnArrival) => nodes' = nodes
       ]_vars
  /\ [][(EnqueueStep /\ sourcesRef = {}) =>
          nodes'[Len(nodes')].start = currentTime]_vars

\* C9 witness: in a session still connected a source enqueued at clock 0,
\* which left nextStartTime beyond the clock, was stopped by an interruption,
\* and the frame enqueued next plays from 0, the clock's time at its enqueue.
C9_Witness ==
  \E n, m \in DOMAIN nodes :
    /\ n < m
    /\ sessionRef # 0
    /\ nodes[n].state = "stopped"
    /\ nodes[m].state = "playing"
    /\ nodes[m].start = 0
    /\ nextStartTimeRef = nodes[m].dur

\* C10: a frame enqueued starts at the later of nextStartTime and the clock,
\* and nextStartTime then is its end (a message that also interrupts stops
\* its own frame at once);
\* of two active sources the later one starts no earlier than the earlier
\* one ends, and directly after it unless the clock had passed that end.
C10_GaplessSchedule ==
  /\ [][\A h \in DOMAIN handlers :
          DecodeDone(h) =>
            LET new == nodes'[Len(nodes')] IN
              /\ Len(nodes') = Len(nodes) + 1
              /\ handlers[h].interrupted => new.state = "stopped"
              /\ ~handlers[h].interrupted =>
                   /\ new.state = "playing"
                   /\ new.start >= nextStartTimeRef /\ new.start >= currentTime
                   /\ new.start \in {nextStartTimeRef, currentTime}
                   /\ new.dur = handlers[h].audio
                   /\ nextStartTimeRef' = new.start + new.dur
       ]_vars
  /\ [](\A i, j \in sourcesRef :
          i < j =>
            /\ nodes[j].start >= nodes[i].start + nodes[i].dur
            /\ (j = i + 1 /\ nodes[j].start > nodes[i].start + nodes[i].dur)
                 => nodes[j].start <= currentTime)

\* C10 witness: three frames of durations d1, d2, d3 (d1 # d2) active at
\* once, started at t, t + d1 and t + d1 + d2.
C10_Witness ==
  \E i \in DOMAIN nodes :
    /\ {i, i + 1, i + 2} \subseteq sourcesRef
    /\ nodes[i].dur # nodes[i + 1].dur
    /\ nodes[i + 1].start = nodes[i].start + nodes[i].dur
    /\ nodes[i + 2].start = nodes[i + 1].start + nodes[i + 1].dur

\* The function calls of handler h that follow call i and are dealt with once
\* the handler has reached its next await or its end.
Processed(hd, i) ==
  IF hd.pc = "collaborator" THEN (i + 1)..(hd.i - 1)
  ELSE (i + 1)..Len(hd.tools)

\* C11: when the collaborator of a function call fails, the handler sends
\* for that call a result whose text begins with "Error: ", does not throw,
\* leaves the status as it was (connected, in a connected session), and goes
\* on with the function calls that follow: each is answered or its
\* collaborator is called.
C11_CollaboratorFailureAbsorbed ==
  [][\A h \in DOMAIN handlers :
       CollaboratorSettles(h, FALSE) =>
         LET i == handlers[h].i
             new == sent'[Len(sent) + 1] IN
           /\ Len(sent') > Len(sent)
           /\ new.call = <<h, i>>
           /\ new.response.id = handlers[h].tools[i].id
           /\ new.response.result[1] = "Error: "
           /\ handlers'[h].pc \in {"collaborator", "done"}
           /\ handlers'[h].pc = "collaborator" => handlers'[h].i > i
           /\ status' = status
           /\ \A j \in Processed(handlers'[h], i) : Answers(h, j)' # {}
    ]_vars

\* C11 witness: in a connected session the first function call of a message
\* was answered with an error text and the second one after it.
C11_Witness ==
  /\ status = "connected"
  /\ \E k, l \in DOMAIN sent :
       /\ k < l
       /\ sent[k].call[1] = sent[l].call[1]
       /\ sent[k].call[2] = 1 /\ sent[l].call[2] = 2
       /\ sent[k].response.result[1] = "Error: "

\* The collaborator calls made for function call i of handler h.
RequestsFor(h, i) == {k \in DOMAIN requests : requests[k].call = <<h, i>>}

\* What the action table gives for a function name: which collaborator is
\* called, with which action label, and the text returned on success.
ActionTable(name) ==
  CASE name = "book_meeting" ->
         [to |-> "logging", actionDone |-> "Appointment Scheduled",
          result |-> <<"Action successful.">>]
    [] name = "create_support_ticket" ->
         [to |-> "logging", actionDone |-> "Support Ticket Logged",
          result |-> <<"Action successful.">>]
    [] name = "log_sales_interest" ->
         [to |-> "logging", actionDone |-> "Sales info Delivered",
          result |-> <<"Action successful.">>]
    [] name = "query_knowledge_base" ->
         [to |-> "lookup", actionDone |-> "",
          result |-> <<"JSON.stringify(res)">>]
    [] OTHER ->
         [to |-> "none", actionDone |-> "", result |-> <<"Action successful.">>]

\* C12: every function call that has been answered had, according to its
\* name, exactly one collaborator call (lookup or logging, with the action
\* label of the table) or none, and its result, unless the collaborator
\* failed, is the text of the table; no call has more than one collaborator
\* call.
C12_ActionTable ==
  \A h \in DOMAIN handlers :
    \A i \in DOMAIN handlers[h].tools :
      LET row == ActionTable(handlers[h].tools[i].name) IN
        /\ Cardinality(RequestsFor(h, i)) <= 1
        /\ \A k \in RequestsFor(h, i) :
             /\ requests[k].to = row.to
             /\ requests[k].actionDone = row.actionDone
        /\ \A k \in Answers(h, i) :
             /\ Cardinality(RequestsFor(h, i)) = IF row.to = "none" THEN 0 ELSE 1
             /\ sent[k].response.result[1] # "Error: "
                  => sent[k].response.result = row.result

\* C12 witness: a message with a ticket and a sales interest was handled,
\* both logged under their own labels and answered with the success text.
C12_Witness ==
  \E h \in DOMAIN handlers :
    /\ handlers[h].pc = "done"
    /\ Len(handlers[h].tools) = 2
    /\ handlers[h].tools[1].name = "create_support_ticket"
    /\ handlers[h].tools[2].name = "log_sales_interest"
    /\ \A i \in 1..2 :
         /\ \E k \in RequestsFor(h, i) :
              requests[k].actionDone = ActionTable(handlers[h].tools[i].name).actionDone
         /\ \E k \in Answers(h, i) :
              sent[k].response.result = <<"Action successful.">>

\* A decode is in flight: a handler waits at line 189.
Decoding == {h \in DOMAIN handlers : handlers[h].pc = "decode"}

\* C13: when the decode of a message's audio fails, the status stays as it
\* was, the handler does not end there: the interrupted flag of the message
\* is handled (active set emptied, nextStartTime reset) and its function
\* calls are answered or their collaborators called; and isSpeaking is not
\* left true with no active source and no other decode in flight.
C13_DecodeFailureDropsFrameOnly ==
  [][\A h \in DOMAIN handlers :
       DecodeFails(h) =>
         /\ status' = status
         /\ nodes' = nodes \/ handlers[h].interrupted
         /\ handlers[h].interrupted =>
              (sourcesRef' = {} /\ nextStartTimeRef' = InterruptedCursor)
         /\ handlers'[h].pc \in {"collaborator", "done"}
         /\ \A j \in Processed(handlers'[h], 0) : Answers(h, j)' # {}
         /\ isSpeaking' => (sourcesRef' # {} \/ Decoding' # {})
    ]_vars

\* C14: every captured block is sent to a session whose transport is open
\* and which sessionRef names, by a processor that has not been disconnected
\* reading a stream that has not been stopped: none is sent before the open
\* event or after a teardown.
C14_CaptureOnlyWhileConnected ==
  \A k \in DOMAIN realtime :
    /\ realtime[k].conn = "open"
    /\ realtime[k].held
    /\ realtime[k].proc = "connected"
    /\ realtime[k].stream = "live"

\* A teardown by the button or by a close event, in connecting or connected.
Teardown ==
  /\ status \in {"connecting", "connected"}
  /\ ClickDisconnect \/ \E a \in DOMAIN calls : TransportClose(a)

\* C15: a teardown by disconnect() or by a close event handled in connecting
\* or connected leaves the status disconnected and nothing of a session
\* behind: the refs null, no transport open or opening, no stream live, no
\* processor connected, no source playing, the active set empty,
\* nextStartTime 0, isListening and isSpeaking false.
C15_TeardownClearsSession ==
  [][Teardown =>
       /\ status' = "disconnected"
       /\ sessionRef' = 0 /\ scriptProcessorRef' = 0 /\ streamRef' = 0
       /\ \A a \in DOMAIN calls' :
            /\ calls'[a].conn \notin {"opening", "open"}
            /\ calls'[a].stream # "live"
            /\ calls'[a].proc # "connected"
       /\ sourcesRef' = {}
       /\ \A n \in DOMAIN nodes' : nodes'[n].state # "playing"
       /\ nextStartTimeRef' = 0
       /\ ~isListening' /\ ~isSpeaking'
    ]_vars

\* C16: the status changes only by connect() from disconnected or error to
\* connecting, by the open event from connecting to connected, by
\* disconnect() or a close event from connecting or connected to
\* disconnected, and by a transport error or a connect() failure to error.
C16_StateMachine ==
  [][status' # status =>
       \/ /\ ClickConnect(Len(calls) + 1)
          /\ status \in {"disconnected", "error"} /\ status' = "connecting"
       \/ /\ \E a \in DOMAIN calls : TransportOpen(a)
          /\ status = "connecting" /\ status' = "connected"
       \/ /\ ClickDisconnect \/ \E a \in DOMAIN calls : TransportClose(a)
          /\ status \in {"connecting", "connected"}
          /\ status' = "disconnected"
       \/ /\ \E a \in DOMAIN calls :
               TransportError(a) \/ \E m \in ErrorMessages : ConnectFails(a, m)
          /\ status' = "error"
    ]_vars

\* C17: every tool response is sent to the session its message came from,
\* while that session's transport is open: none after the session was torn
\* down, none to another session.
C17_NoResponseAfterTeardown ==
  \A k \in DOMAIN sent :
    /\ sent[k].conn = "open"
    /\ sent[k].to = handlers[sent[k].call[1]].s

\* C18: of two active sources whose messages arrived after the last teardown
\* or interruption, the one of the earlier message starts no later than the
\* one of the later message.
C18_ArrivalOrder ==
  \A i, j \in sourcesRef :
    (cutAt < nodes[i].by /\ nodes[i].by < nodes[j].by)
      => nodes[i].start <= nodes[j].start

\* C19: a step that runs cleanup() leaves no audio context and no gain node
\* held, and the contexts and the gain node a connect() works with are the
\* ones it created itself.
C19_OutputDeviceReleased ==
  [][/\ cleanups' >= 1 /\ cleanups' # cleanups =>
          /\ audioContextInRef' = 0
          /\ audioContextOutRef' = 0
          /\ gainNodeOutRef' = 0
     /\ ClickConnect(Len(calls) + 1) =>
          /\ audioContextInRef' = Len(calls')
          /\ audioContextOutRef' = Len(calls')
     /\ \A a \in DOMAIN calls : ResumeOut(a) => gainNodeOutRef' = a
    ]_vars

\* C20: isSpeaking is true whenever the active set is not empty, and when it
\* is true a source is active or a decode is in flight; so with the last
\* source ended and no decode in flight it is false.
C20_SpeakingTracksPlayback ==
  /\ sourcesRef # {} => isSpeaking
  /\ isSpeaking => (sourcesRef # {} \/ Decoding # {})

====
